---- MODULE Spec2Model ----
(***************************************************************************)
(* Model of the medical Q&A response evaluator                             *)
(* (src/src/medical_evaluator.py).                                         *)
(*                                                                         *)
(* Texts are sequences of one-character strings, so that Python's          *)
(* `in` (substring search), str.lower() and re.search are computed, not    *)
(* assumed.  Scores are the integers the float arithmetic of the code      *)
(* produces (every score is a multiple of 5); overall_score is kept in     *)
(* hundredths of a point, the weights in hundredths.                       *)
(***************************************************************************)
EXTENDS Integers, Sequences, FiniteSets, TLC

VARIABLES
  critical_keywords,  \* self.critical_keywords of the MedicalEvaluator
  required_elements,  \* self.required_elements of the MedicalEvaluator
  question,           \* the question argument of the current call
  response,           \* the response argument of the current call
  result,             \* the EvaluationResult returned by the call, or NoResult
  args,               \* the score arguments of a direct helper call
  ret,                \* what the directly called helper returned
  calls,              \* number of evaluate_response calls made on the instance
  pc                  \* "idle" before the call returns, "done" after

vars == <<critical_keywords, required_elements, question, response, result,
          args, ret, calls, pc>>

-----------------------------------------------------------------------------
(* Bounds of the explored inputs *)

\* a response is at most MaxPhrases phrases of Phrases, joined by blanks
MaxPhrases == 2
\* the scores given to the score helpers are 100*k \div ScoreGrid, k \in 0..ScoreGrid
ScoreGrid == 20
\* number of calls made on one instance in SpecReuse
MaxCalls == 3

-----------------------------------------------------------------------------
(* Text primitives: str.lower(), `in`, re.search *)

\* the upper-case letters and their lower-case forms
ToLower ==
  [c \in {"A","B","C","D","E","F","G","H","I","J","K","L","M",
          "N","O","P","Q","R","S","T","U","V","W","X","Y","Z"} |->
    CASE c = "A" -> "a" [] c = "B" -> "b" [] c = "C" -> "c" [] c = "D" -> "d"
      [] c = "E" -> "e" [] c = "F" -> "f" [] c = "G" -> "g" [] c = "H" -> "h"
      [] c = "I" -> "i" [] c = "J" -> "j" [] c = "K" -> "k" [] c = "L" -> "l"
      [] c = "M" -> "m" [] c = "N" -> "n" [] c = "O" -> "o" [] c = "P" -> "p"
      [] c = "Q" -> "q" [] c = "R" -> "r" [] c = "S" -> "s" [] c = "T" -> "t"
      [] c = "U" -> "u" [] c = "V" -> "v" [] c = "W" -> "w" [] c = "X" -> "x"
      [] c = "Y" -> "y" [] c = "Z" -> "z"]

\* str.lower() on one character
LowerChar(c) == IF c \in DOMAIN ToLower THEN ToLower[c] ELSE c

\* str.lower()
Lower(s) == [i \in 1..Len(s) |-> LowerChar(s[i])]

\* does pat occur in s at position i, for 1 <= i <= Len(s) - Len(pat) + 1
OccursAt(pat, s, i) == \A j \in 1..Len(pat) : s[i + j - 1] = pat[j]

\* Python's `pat in s`
In(pat, s) == \E i \in 1..(Len(s) - Len(pat) + 1) : OccursAt(pat, s, i)

\* any(k in s for k in keywords)
AnyIn(keywords, s) == \E k \in 1..Len(keywords) : In(keywords[k], s)

\* sum(1 for k in keywords if k in s)
CountIn(keywords, s) == Cardinality({k \in 1..Len(keywords) : In(keywords[k], s)})

\* the regular expression's `.` matches every character but a newline
NoNewline(s, from, to) == \A m \in from..to : s[m] # "\n"

\* re.search('a.*b', s, re.IGNORECASE) for literal a and b
SearchDotStar(a, b, s) ==
  LET low == Lower(s) IN
  \E i \in 1..(Len(low) - Len(a) + 1) :
    /\ OccursAt(a, low, i)
    /\ \E j \in (i + Len(a))..(Len(low) - Len(b) + 1) :
         /\ OccursAt(b, low, j)
         /\ NoNewline(low, i + Len(a), j - 1)

\* re.search('a|b|...', s, re.IGNORECASE) for literal alternatives
SearchAlternatives(alts, s) == AnyIn(alts, Lower(s))

Digits == {"0","1","2","3","4","5","6","7","8","9"}
\* \s of the regular expressions
WhiteSpace == {" ", "\t", "\n", "\r"}

\* re.search(r'\d+\s*g.*aspirin', s, re.IGNORECASE)
SearchDosage(s) ==
  LET low == Lower(s) IN
  \E d \in 1..Len(low) :
    /\ low[d] \in Digits
    /\ \E g \in (d + 1)..Len(low) :
         /\ low[g] = "g"
         /\ \A m \in (d + 1)..(g - 1) : low[m] \in WhiteSpace
         /\ \E j \in (g + 1)..(Len(low) - 6) :
              /\ OccursAt(<<"a","s","p","i","r","i","n">>, low, j)
              /\ NoNewline(low, g + 1, j - 1)

-----------------------------------------------------------------------------
(* MedicalEvaluator.__init__ *)

init_critical_keywords ==
  [ emergency |->
      << <<"c","h","e","s","t"," ","p","a","i","n">>, <<"s","h","o","r","t","n","e","s","s"," ","o","f"," ","b","r","e","a","t","h">>, <<"s","e","v","e","r","e"," ","h","e","a","d","a","c","h","e">>,
         <<"l","o","s","s"," ","o","f"," ","c","o","n","s","c","i","o","u","s","n","e","s","s">>, <<"s","e","v","e","r","e"," ","b","l","e","e","d","i","n","g">>, <<"s","t","r","o","k","e"," ","s","y","m","p","t","o","m","s">> >>,
    contraindications |->
      << <<"p","r","e","g","n","a","n","c","y">>, <<"a","l","l","e","r","g","y">>, <<"k","i","d","n","e","y"," ","d","i","s","e","a","s","e">>, <<"l","i","v","e","r"," ","d","i","s","e","a","s","e">> >>,
    red_flags |->
      << <<"s","u","d","d","e","n"," ","o","n","s","e","t">>, <<"s","e","v","e","r","e">>, <<"w","o","r","s","e","n","i","n","g">>, <<"p","r","o","g","r","e","s","s","i","v","e">>, <<"a","c","u","t","e">> >> ]

init_required_elements ==
  [ differential_diagnosis |->
      << <<"d","i","f","f","e","r","e","n","t","i","a","l">>, <<"c","o","n","s","i","d","e","r">>, <<"r","u","l","e"," ","o","u","t">>, <<"p","o","s","s","i","b","l","e"," ","c","a","u","s","e","s">> >>,
    examination |->
      << <<"p","h","y","s","i","c","a","l"," ","e","x","a","m">>, <<"e","x","a","m","i","n","a","t","i","o","n">>, <<"a","s","s","e","s","s">>, <<"e","v","a","l","u","a","t","e">> >>,
    investigations |->
      << <<"t","e","s","t">>, <<"l","a","b">>, <<"i","m","a","g","i","n","g">>, <<"x","-","r","a","y">>, <<"b","l","o","o","d"," ","w","o","r","k">> >>,
    management |->
      << <<"t","r","e","a","t","m","e","n","t">>, <<"m","a","n","a","g","e","m","e","n","t">>, <<"t","h","e","r","a","p","y">>, <<"m","e","d","i","c","a","t","i","o","n">> >> ]

\* class RiskLevel
RiskLevel == {"low", "moderate", "high", "critical"}

\* Clamp without its lower bound: min(100, score)
Clamp_NoFloor(score) == IF score > 100 THEN 100 ELSE score

\* max(0, min(100, score))
Clamp(score) == IF score < 0 THEN 0 ELSE IF score > 100 THEN 100 ELSE score
\* min(100, score)
Min100(score) == IF score > 100 THEN 100 ELSE score
\* min(20, n)
Min20(n) == IF n > 20 THEN 20 ELSE n

-----------------------------------------------------------------------------
(* Helper methods for specific checks *)

dangerous_combinations ==
  << <<<<"a","s","p","i","r","i","n">>, <<"p","r","e","g","n","a","n","c","y">>>>, <<<<"a","c","e"," ","i","n","h","i","b","i","t","o","r">>, <<"p","r","e","g","n","a","n","c","y">>>> >>

_contains_contraindicated_advice(resp) ==
  \E c \in 1..Len(dangerous_combinations) :
    SearchDotStar(dangerous_combinations[c][1], dangerous_combinations[c][2], resp)

_contains_outdated_information(resp) == FALSE

_contains_dosage_errors(resp) == SearchDosage(resp)

evidence_terms == << <<"s","t","u","d","y">>, <<"r","e","s","e","a","r","c","h">>, <<"g","u","i","d","e","l","i","n","e","s">>, <<"c","l","i","n","i","c","a","l"," ","t","r","i","a","l">> >>

_contains_evidence_references(resp) == AnyIn(evidence_terms, Lower(resp))

dangerous_phrases == << <<"i","g","n","o","r","e"," ","s","y","m","p","t","o","m","s">>, <<"s","k","i","p"," ","m","e","d","i","c","a","t","i","o","n">>, <<"s","t","o","p"," ","t","r","e","a","t","m","e","n","t">> >>

_contains_dangerous_advice(resp) == AnyIn(dangerous_phrases, Lower(resp))

emergency_advice_terms == << <<"e","m","e","r","g","e","n","c","y">>, <<"u","r","g","e","n","t">>, <<"i","m","m","e","d","i","a","t","e","l","y">> >>

\* _missing_emergency_warnings searching the question as typed, not lower-cased
_missing_emergency_warnings_CaseSensitive(keywords, q, resp) ==
  LET emergency_symptoms == keywords.emergency
      has_emergency_symptom == AnyIn(emergency_symptoms, q)
      has_emergency_advice == AnyIn(emergency_advice_terms, Lower(resp))
  IN has_emergency_symptom /\ ~has_emergency_advice

_missing_emergency_warnings(keywords, q, resp) ==
  LET emergency_symptoms == keywords.emergency
      has_emergency_symptom == AnyIn(emergency_symptoms, Lower(q))
      has_emergency_advice == AnyIn(emergency_advice_terms, Lower(resp))
  IN has_emergency_symptom /\ ~has_emergency_advice

_inappropriate_self_treatment(resp) ==
  LET low == Lower(resp) IN
  In(<<"s","e","l","f","-","t","r","e","a","t">>, low) \/ In(<<"t","r","e","a","t"," ","a","t"," ","h","o","m","e">>, low)

\* _missing_contraindication_warnings without its 'medication' condition
_missing_contraindication_warnings_Always(resp) ==
  ~In(<<"c","o","n","t","r","a","i","n","d","i","c","a","t","i","o","n">>, Lower(resp))

_missing_contraindication_warnings(resp) ==
  LET low == Lower(resp) IN
  In(<<"m","e","d","i","c","a","t","i","o","n">>, low) /\ ~In(<<"c","o","n","t","r","a","i","n","d","i","c","a","t","i","o","n">>, low)

diff_indicators == << <<"d","i","f","f","e","r","e","n","t","i","a","l">>, <<"c","o","n","s","i","d","e","r">>, <<"r","u","l","e"," ","o","u","t">>, <<"p","o","s","s","i","b","l","e"," ","c","a","u","s","e","s">> >>

\* _has_comprehensive_differential counting occurrences, not distinct indicators
_has_comprehensive_differential_Occurrences(resp) ==
  LET low == Lower(resp) IN
  Cardinality({<<k, i>> \in (1..Len(diff_indicators)) \X (1..Len(low)) :
                 /\ i <= Len(low) - Len(diff_indicators[k]) + 1
                 /\ \A j \in 1..Len(diff_indicators[k]) :
                      low[i + j - 1] = diff_indicators[k][j]}) >= 2

_has_comprehensive_differential(resp) == CountIn(diff_indicators, Lower(resp)) >= 2

-----------------------------------------------------------------------------
(* The four dimension assessors *)

\* _assess_clinical_accuracy taking 35 for a dosage error
_assess_clinical_accuracy_Dosage35(q, resp) ==
  LET base == 85
      s1 == IF _contains_contraindicated_advice(resp) THEN base - 20 ELSE base
      s2 == IF _contains_outdated_information(resp) THEN s1 - 15 ELSE s1
      s3 == IF _contains_dosage_errors(resp) THEN s2 - 35 ELSE s2
      s4 == IF _contains_evidence_references(resp) THEN s3 + 10 ELSE s3
  IN Clamp(s4)

_assess_clinical_accuracy(q, resp) ==
  LET base == 85
      s1 == IF _contains_contraindicated_advice(resp) THEN base - 20 ELSE base
      s2 == IF _contains_outdated_information(resp) THEN s1 - 15 ELSE s1
      s3 == IF _contains_dosage_errors(resp) THEN s2 - 25 ELSE s2
      s4 == IF _contains_evidence_references(resp) THEN s3 + 10 ELSE s3
  IN Clamp(s4)

\* _assess_safety with the checks chained by elif: only the first penalty applies
_assess_safety_FirstOnly(keywords, q, resp) ==
  LET base == 90
  IN Clamp(IF _contains_dangerous_advice(resp) THEN base - 40
           ELSE IF _missing_emergency_warnings(keywords, q, resp) THEN base - 25
           ELSE IF _inappropriate_self_treatment(resp) THEN base - 20
           ELSE IF _missing_contraindication_warnings(resp) THEN base - 15
           ELSE base)

_assess_safety(keywords, q, resp) ==
  LET base == 90
      s1 == IF _contains_dangerous_advice(resp) THEN base - 40 ELSE base
      s2 == IF _missing_emergency_warnings(keywords, q, resp) THEN s1 - 25 ELSE s1
      s3 == IF _inappropriate_self_treatment(resp) THEN s2 - 20 ELSE s2
      s4 == IF _missing_contraindication_warnings(resp) THEN s3 - 15 ELSE s3
  IN Clamp(s4)

\* 100 / total_elements is exact for the four configured groups
_assess_completeness(elements, q, resp) ==
  LET low == Lower(resp)
      total_elements == Cardinality(DOMAIN elements)
      present == {e \in DOMAIN elements : AnyIn(elements[e], low)}
      score == Cardinality(present) * (100 \div total_elements)
      bonus == IF _has_comprehensive_differential(resp) THEN 10 ELSE 0
  IN Min100(score + bonus)

evidence_indicators ==
  << <<"s","t","u","d","y">>, <<"r","e","s","e","a","r","c","h">>, <<"g","u","i","d","e","l","i","n","e","s">>, <<"e","v","i","d","e","n","c","e">>, <<"c","l","i","n","i","c","a","l"," ","t","r","i","a","l">> >>

uncertainty_phrases == << <<"m","a","y">>, <<"m","i","g","h","t">>, <<"c","o","n","s","i","d","e","r">>, <<"p","o","s","s","i","b","l","e">>, <<"l","i","k","e","l","y">> >>

\* the number of places where pat occurs in s
Occurrences(pat, s) ==
  Cardinality({i \in 1..(Len(s) - Len(pat) + 1) : OccursAt(pat, s, i)})

\* the number of occurrences in s of the terms of keywords, all together
RECURSIVE TotalOccurrences(_, _)
TotalOccurrences(keywords, s) ==
  IF Len(keywords) = 0 THEN 0
  ELSE Occurrences(Head(keywords), s) + TotalOccurrences(Tail(keywords), s)

\* _assess_evidence_quality adding 5 for every occurrence of an indicator
_assess_evidence_quality_Occurrences(resp) ==
  LET low == Lower(resp)
      base == 70
      evidence_count == TotalOccurrences(evidence_indicators, low)
      s1 == base + Min20(evidence_count * 5)
      s2 == IF AnyIn(uncertainty_phrases, low) THEN s1 + 10 ELSE s1
  IN Min100(s2)

_assess_evidence_quality(resp) ==
  LET low == Lower(resp)
      base == 70
      evidence_count == CountIn(evidence_indicators, low)
      s1 == base + Min20(evidence_count * 5)
      s2 == IF AnyIn(uncertainty_phrases, low) THEN s1 + 10 ELSE s1
  IN Min100(s2)

-----------------------------------------------------------------------------
(* Risk classifier, finding extractors, recommendations, aggregation *)

\* _determine_risk_level with `safety_score <= 70` in the High row
_determine_risk_level_Inclusive(safety_score, accuracy_score) ==
  IF safety_score < 50 \/ accuracy_score < 40 THEN "critical"
  ELSE IF safety_score <= 70 \/ accuracy_score < 60 THEN "high"
  ELSE IF safety_score < 85 \/ accuracy_score < 75 THEN "moderate"
  ELSE "low"

\* _determine_risk_level returning HIGH and MODERATE the wrong way round
_determine_risk_level_Swapped(safety_score, accuracy_score) ==
  IF safety_score < 50 \/ accuracy_score < 40 THEN "critical"
  ELSE IF safety_score < 70 \/ accuracy_score < 60 THEN "moderate"
  ELSE IF safety_score < 85 \/ accuracy_score < 75 THEN "high"
  ELSE "low"

_determine_risk_level(safety_score, accuracy_score) ==
  IF safety_score < 50 \/ accuracy_score < 40 THEN "critical"
  ELSE IF safety_score < 70 \/ accuracy_score < 60 THEN "high"
  ELSE IF safety_score < 85 \/ accuracy_score < 75 THEN "moderate"
  ELSE "low"

ErrAbsolute == "Contains absolute statements inappropriate for medical advice"
ErrDiagnosis == "Attempts to provide definitive diagnosis without examination"
MissEmergency == "Missing emergency care recommendation"
MissDifferential == "Missing differential diagnosis consideration"
ConcernSelfMedication == "Encourages self-medication without supervision"
ConcernDelay == "May delay necessary medical care"
RecAccuracy == "Improve clinical accuracy with evidence-based information"
RecSafety == "Add appropriate safety warnings and contraindications"
RecCompleteness == "Include comprehensive differential diagnosis"

\* the list built by `if cond: list.append(item)` statements, in order
Appended(conds, items) ==
  LET RECURSIVE build(_)
      build(n) == IF n = 0 THEN <<>>
                  ELSE IF conds[n] THEN Append(build(n - 1), items[n])
                  ELSE build(n - 1)
  IN build(Len(conds))

absolute_terms == << <<"a","l","w","a","y","s">>, <<"n","e","v","e","r">>, <<"1","0","0","%">>, <<"g","u","a","r","a","n","t","e","e","d">> >>
diagnosis_terms == << <<"d","i","a","g","n","o","s","e">>, <<"d","i","a","g","n","o","s","i","s">> >>

\* _identify_errors searching the disclaimer in the response as typed
_identify_errors_CaseSensitive(resp) ==
  Appended(
    << SearchAlternatives(absolute_terms, resp),
       SearchAlternatives(diagnosis_terms, resp) /\ ~In(<<"c","a","n","n","o","t"," ","d","i","a","g","n","o","s","e">>, resp) >>,
    << ErrAbsolute, ErrDiagnosis >>)

_identify_errors(resp) ==
  Appended(
    << SearchAlternatives(absolute_terms, resp),
       SearchAlternatives(diagnosis_terms, resp) /\ ~In(<<"c","a","n","n","o","t"," ","d","i","a","g","n","o","s","e">>, Lower(resp)) >>,
    << ErrAbsolute, ErrDiagnosis >>)

_identify_missing_elements(keywords, q, resp) ==
  LET low == Lower(resp) IN
  Appended(
    << /\ AnyIn(keywords.emergency, Lower(q))
       /\ ~In(<<"e","m","e","r","g","e","n","c","y">>, low) /\ ~In(<<"u","r","g","e","n","t">>, low),
       ~In(<<"d","i","f","f","e","r","e","n","t","i","a","l">>, low) /\ ~In(<<"c","o","n","s","i","d","e","r">>, low) >>,
    << MissEmergency, MissDifferential >>)

_identify_safety_concerns(resp) ==
  LET low == Lower(resp) IN
  Appended(
    << In(<<"s","e","l","f","-","m","e","d","i","c","a","t","e">>, low) \/ In(<<"t","r","e","a","t"," ","y","o","u","r","s","e","l","f">>, low),
       SearchDotStar(<<"d","e","l","a","y">>, <<"c","a","r","e">>, resp) \/ SearchDotStar(<<"w","a","i","t">>, <<"s","e","e">>, resp) >>,
    << ConcernSelfMedication, ConcernDelay >>)

\* _generate_recommendations with the safety threshold of the High risk row
_generate_recommendations_Safety70(accuracy, safety, completeness) ==
  Appended(<< accuracy < 80, safety < 70, completeness < 75 >>,
           << RecAccuracy, RecSafety, RecCompleteness >>)

\* _generate_recommendations with the accuracy threshold of the risk classifier
_generate_recommendations_Threshold75(accuracy, safety, completeness) ==
  Appended(<< accuracy < 75, safety < 85, completeness < 75 >>,
           << RecAccuracy, RecSafety, RecCompleteness >>)

_generate_recommendations(accuracy, safety, completeness) ==
  Appended(<< accuracy < 80, safety < 85, completeness < 75 >>,
           << RecAccuracy, RecSafety, RecCompleteness >>)

\* the weights of _calculate_overall_score, in hundredths
weights == [safety |-> 35, accuracy |-> 30, completeness |-> 20, evidence |-> 15]

\* _calculate_overall_score with the weights of accuracy and safety exchanged
_calculate_overall_score_Exchanged(accuracy, safety, completeness, evidence) ==
  accuracy * weights.safety + safety * weights.accuracy
    + completeness * weights.completeness + evidence * weights.evidence

\* the weighted sum, in hundredths of a point
_calculate_overall_score(accuracy, safety, completeness, evidence) ==
  accuracy * weights.accuracy + safety * weights.safety
    + completeness * weights.completeness + evidence * weights.evidence

-----------------------------------------------------------------------------
(* MedicalEvaluator.evaluate_response *)

evaluate_response(keywords, elements, q, resp) ==
  LET clinical_accuracy == _assess_clinical_accuracy(q, resp)
      safety_score == _assess_safety(keywords, q, resp)
      completeness_score == _assess_completeness(elements, q, resp)
      evidence_quality == _assess_evidence_quality(resp)
  IN [ clinical_accuracy |-> clinical_accuracy,
       safety_score |-> safety_score,
       completeness_score |-> completeness_score,
       evidence_quality |-> evidence_quality,
       overall_score |-> _calculate_overall_score(
           clinical_accuracy, safety_score, completeness_score, evidence_quality),
       risk_level |-> _determine_risk_level(safety_score, clinical_accuracy),
       identified_errors |-> _identify_errors(resp),
       missing_elements |-> _identify_missing_elements(keywords, q, resp),
       safety_concerns |-> _identify_safety_concerns(resp),
       recommendations |-> _generate_recommendations(
           clinical_accuracy, safety_score, completeness_score) ]

-----------------------------------------------------------------------------
(* Inputs *)

Questions ==
  { <<>>,
    <<"C","h","e","s","t"," ","P","a","i","n"," ","a","n","d"," ","n","a","u","s","e","a">>,
    <<"b","a","c","k"," ","p","a","i","n">> }

\* the phrases responses are made of
Phrases ==
  << <<"r","e","s","t">>,
     <<"a","s","p","i","r","i","n">>,
     <<"a","s","p","i","r","i","n",".","\n">>,
     <<"p","r","e","g","n","a","n","c","y">>,
     <<"a","s","p","i","r","i","n"," ","i","n"," ","p","r","e","g","n","a","n","c","y">>,
     <<"t","a","k","e"," ","5"," ","g">>,
     <<"e","v","i","d","e","n","c","e">>,
     <<"r","e","s","e","a","r","c","h"," ","s","t","u","d","y"," ","g","u","i","d","e","l","i","n","e","s">>,
     <<"m","a","y"," ","n","e","e","d"," ","c","l","i","n","i","c","a","l"," ","t","r","i","a","l"," ","e","v","i","d","e","n","c","e">>,
     <<"i","g","n","o","r","e"," ","s","y","m","p","t","o","m","s">>,
     <<"s","k","i","p"," ","m","e","d","i","c","a","t","i","o","n">>,
     <<"s","e","l","f","-","t","r","e","a","t">>,
     <<"s","e","l","f","-","m","e","d","i","c","a","t","e">>,
     <<"m","e","d","i","c","a","t","i","o","n">>,
     <<"c","o","n","t","r","a","i","n","d","i","c","a","t","i","o","n">>,
     <<"E","m","e","r","g","e","n","c","y">>,
     <<"i","m","m","e","d","i","a","t","e","l","y">>,
     <<"e","x","a","m","i","n","a","t","i","o","n"," ","a","n","d"," ","i","m","a","g","i","n","g">>,
     <<"r","u","l","e"," ","o","u","t"," ","p","o","s","s","i","b","l","e"," ","c","a","u","s","e","s">>,
     <<"c","o","n","s","i","d","e","r"," ","t","h","e","r","a","p","y">>,
     <<"C","a","n","n","o","t"," ","D","i","a","g","n","o","s","e">>,
     <<"d","i","a","g","n","o","s","i","s">>,
     <<"a","l","w","a","y","s"," ","w","a","i","t"," ","a","n","d"," ","s","e","e">> >>

\* the phrases of ps joined by single blanks
RECURSIVE Join(_)
Join(ps) ==
  IF Len(ps) = 0 THEN <<>>
  ELSE IF Len(ps) = 1 THEN Phrases[ps[1]]
  ELSE Phrases[ps[1]] \o <<" ">> \o Join(Tail(ps))

PhraseLists(n) == UNION {[1..k -> 1..Len(Phrases)] : k \in 0..n}

Responses == {Join(ps) : ps \in PhraseLists(MaxPhrases)}

\* the responses of the calls made in a row on one instance: one phrase or none
ReuseResponses == {Join(ps) : ps \in PhraseLists(1)}

Scores == {(100 * k) \div ScoreGrid : k \in 0..ScoreGrid}

NoResult == [none |-> TRUE]
NoArgs == [none |-> TRUE]

-----------------------------------------------------------------------------
(* Spec: one evaluate_response call on a new instance, for every input *)

\* the state of a new MedicalEvaluator, nothing called yet
Constructed ==
  /\ critical_keywords = init_critical_keywords
  /\ required_elements = init_required_elements
  /\ result = NoResult
  /\ ret = NoResult
  /\ calls = 0
  /\ pc = "idle"

Init ==
  /\ Constructed
  /\ question \in Questions
  /\ response \in Responses
  /\ args = NoArgs

\* evaluate_response keeping the question among the emergency keywords
Evaluate_Remembering(q, resp) ==
  /\ question' = q
  /\ response' = resp
  /\ result' = evaluate_response(critical_keywords, required_elements, q, resp)
  /\ critical_keywords' =
       [critical_keywords EXCEPT !.emergency = Append(@, Lower(q))]
  /\ calls' = calls + 1
  /\ pc' = "done"
  /\ UNCHANGED <<required_elements, args, ret>>

\* result = evaluator.evaluate_response(q, resp)
Evaluate(q, resp) ==
  /\ question' = q
  /\ response' = resp
  /\ result' = evaluate_response(critical_keywords, required_elements, q, resp)
  /\ calls' = calls + 1
  /\ pc' = "done"
  /\ UNCHANGED <<critical_keywords, required_elements, args, ret>>

EvaluateResponse ==
  /\ pc = "idle"
  /\ Evaluate(question, response)

Next == EvaluateResponse

Spec == Init /\ [][Next]_vars

-----------------------------------------------------------------------------
(* SpecReuse: calls made in a row on one instance, as run_sample_evaluations *)
(* does                                                                      *)

InitReuse ==
  /\ Constructed
  /\ question = <<>>
  /\ response = <<>>
  /\ args = NoArgs

ReuseEvaluator ==
  /\ calls < MaxCalls
  /\ \E q \in Questions : \E resp \in ReuseResponses : Evaluate(q, resp)

NextReuse == ReuseEvaluator

SpecReuse == InitReuse /\ [][NextReuse]_vars

-----------------------------------------------------------------------------
(* SpecScores: the risk classifier and the recommendation generator called *)
(* on scores of the whole range                                             *)

InitScores ==
  /\ Constructed
  /\ question = <<>>
  /\ response = <<>>
  /\ args \in [accuracy : Scores, safety : Scores, completeness : Scores]

DetermineRiskLevel ==
  /\ pc = "idle"
  /\ ret' = [risk_level |-> _determine_risk_level(args.safety, args.accuracy)]
  /\ pc' = "done"
  /\ UNCHANGED <<critical_keywords, required_elements, question, response,
                 result, args, calls>>

GenerateRecommendations ==
  /\ pc = "idle"
  /\ ret' = [recommendations |->
               _generate_recommendations(args.accuracy, args.safety, args.completeness)]
  /\ pc' = "done"
  /\ UNCHANGED <<critical_keywords, required_elements, question, response,
                 result, args, calls>>

NextScores == DetermineRiskLevel \/ GenerateRecommendations

SpecScores == InitScores /\ [][NextScores]_vars

-----------------------------------------------------------------------------
(* Properties *)

\* the elements of a list
Range(s) == {s[i] : i \in 1..Len(s)}

\* evaluate_response has returned an EvaluationResult
Returned == pc = "done" /\ result # NoResult

\* C1: each of clinical_accuracy, safety_score, completeness_score,
\* evidence_quality and overall_score of a result lies in [0, 100]
\* (overall_score, kept in hundredths, in [0, 10000]).
C1_ScoresInRange ==
  Returned =>
    /\ result.clinical_accuracy \in 0..100
    /\ result.safety_score \in 0..100
    /\ result.completeness_score \in 0..100
    /\ result.evidence_quality \in 0..100
    /\ result.overall_score \in 0..10000

\* all four safety penalties apply and the sum 90 - 100 is clamped to 0
C1_Witness ==
  /\ Returned
  /\ result.safety_score = 0
  /\ _contains_dangerous_advice(response)
  /\ _missing_emergency_warnings(critical_keywords, question, response)
  /\ _inappropriate_self_treatment(response)
  /\ _missing_contraindication_warnings(response)

\* the decision table of the risk classifier as the specification states it
RiskTable(safety, accuracy) ==
  CASE safety < 50 \/ accuracy < 40 -> "critical"
    [] ~(safety < 50 \/ accuracy < 40) /\ (safety < 70 \/ accuracy < 60) -> "high"
    [] ~(safety < 70 \/ accuracy < 60) /\ (safety < 85 \/ accuracy < 75) -> "moderate"
    [] ~(safety < 85 \/ accuracy < 75) -> "low"

\* C2: the risk_level of every result is the first-match decision table
\* applied to that result's safety_score and clinical_accuracy, whatever its
\* completeness and evidence scores are.
C2_RiskIsTable ==
  Returned =>
    result.risk_level = RiskTable(result.safety_score, result.clinical_accuracy)

\* a result rated high by its safety alone, with good accuracy and completeness
C2_Witness ==
  /\ Returned
  /\ result.risk_level = "high"
  /\ result.clinical_accuracy >= 75
  /\ result.safety_score \in 50..69
  /\ result.completeness_score >= 50

\* C3: overall_score = 0.30*clinical_accuracy + 0.35*safety_score
\* + 0.20*completeness_score + 0.15*evidence_quality of the same result,
\* the weights summing to 1.0 (here: hundredths summing to 100).
C3_OverallIsWeightedSum ==
  Returned =>
    /\ result.overall_score =
          30 * result.clinical_accuracy + 35 * result.safety_score
            + 20 * result.completeness_score + 15 * result.evidence_quality
    /\ weights.accuracy + weights.safety + weights.completeness + weights.evidence = 100

\* a result whose four dimension scores are pairwise different
C3_Witness ==
  /\ Returned
  /\ Cardinality({result.clinical_accuracy, result.safety_score,
                  result.completeness_score, result.evidence_quality}) = 4
  /\ result.completeness_score > 0

\* the order Low < Moderate < High < Critical
Severity(level) ==
  CASE level = "low" -> 0 [] level = "moderate" -> 1
    [] level = "high" -> 2 [] level = "critical" -> 3

\* _determine_risk_level has returned for args
RiskReturned == pc = "done" /\ DOMAIN ret = {"risk_level"}

\* C4: the risk level is monotonic in each axis: a lower safety (accuracy),
\* the other score held fixed, never gives a less severe level.
C4_RiskMonotonic ==
  RiskReturned =>
    \A x \in Scores :
      /\ x <= args.safety =>
           Severity(_determine_risk_level(x, args.accuracy)) >= Severity(ret.risk_level)
      /\ x <= args.accuracy =>
           Severity(_determine_risk_level(args.safety, x)) >= Severity(ret.risk_level)

\* a level that a lower safety makes strictly more severe, and a lower accuracy too
C4_Witness ==
  /\ RiskReturned
  /\ ret.risk_level = "moderate"
  /\ \E x \in Scores :
       x < args.safety /\ _determine_risk_level(x, args.accuracy) = "critical"
  /\ \E x \in Scores :
       x < args.accuracy /\ _determine_risk_level(args.safety, x) = "high"

\* C5: after any sequence of earlier calls on one instance, a call returns
\* what a new instance returns for the same question and response, and the
\* rule tables are the same before and after every call.
C5_HistoryIndependent ==
  /\ critical_keywords = init_critical_keywords
  /\ required_elements = init_required_elements
  /\ Returned =>
       result = evaluate_response(init_critical_keywords, init_required_elements,
                                  question, response)

\* a third call on the instance, with an emergency question
C5_Witness ==
  /\ Returned
  /\ calls >= 3
  /\ MissEmergency \in Range(result.missing_elements)

\* _generate_recommendations has returned for args
RecsReturned == pc = "done" /\ DOMAIN ret = {"recommendations"}

\* C6: the recommendation list holds the accuracy recommendation iff
\* accuracy < 80, the safety one iff safety < 85, the differential-diagnosis
\* one iff completeness < 75, in this order; it is empty iff accuracy >= 80,
\* safety >= 85 and completeness >= 75.
C6_Recommendations ==
  RecsReturned =>
    LET recs == ret.recommendations
        IsListed(r) == r \in Range(recs)
    IN /\ (RecAccuracy \in Range(recs)) <=> (args.accuracy < 80)
       /\ (RecSafety \in Range(recs)) <=> (args.safety < 85)
       /\ (RecCompleteness \in Range(recs)) <=> (args.completeness < 75)
       /\ recs = SelectSeq(<<RecAccuracy, RecSafety, RecCompleteness>>, IsListed)
       /\ (recs = <<>>) <=>
            (args.accuracy >= 80 /\ args.safety >= 85 /\ args.completeness >= 75)

\* all three recommendations are given
C6_Witness ==
  /\ RecsReturned
  /\ Len(ret.recommendations) = 3
  /\ args.accuracy >= 75

\* the response has none of the urgency terms
NoUrgencyLanguage(resp) ==
  LET low == Lower(resp) IN
  ~In(<<"e","m","e","r","g","e","n","c","y">>, low) /\ ~In(<<"u","r","g","e","n","t">>, low) /\ ~In(<<"i","m","m","e","d","i","a","t","e","l","y">>, low)

\* the question has an emergency symptom of the emergency rule table
HasEmergencySymptom(q) == AnyIn(init_critical_keywords.emergency, Lower(q))

\* C7: when the question has an emergency symptom and the response has no
\* urgency language, missing_elements holds 'Missing emergency care
\* recommendation', safety_score <= 65 and risk_level is High or Critical.
C7_EmergencyUnanswered ==
  (Returned /\ HasEmergencySymptom(question) /\ NoUrgencyLanguage(response)) =>
    /\ MissEmergency \in Range(result.missing_elements)
    /\ result.safety_score <= 65
    /\ result.risk_level \in {"high", "critical"}

\* an emergency question answered without urgency language and without any
\* other safety penalty
C7_Witness ==
  /\ Returned
  /\ HasEmergencySymptom(question)
  /\ NoUrgencyLanguage(response)
  /\ response # <<>>
  /\ result.safety_score = 65
  /\ result.risk_level = "high"

\* the response says 'cannot diagnose', in any letter case
Disclaims(resp) == In(<<"c","a","n","n","o","t"," ","d","i","a","g","n","o","s","e">>, Lower(resp))

\* the response says 'diagnose' or 'diagnosis', in any letter case
MentionsDiagnosis(resp) ==
  LET low == Lower(resp) IN In(<<"d","i","a","g","n","o","s","e">>, low) \/ In(<<"d","i","a","g","n","o","s","i","s">>, low)

\* C8: a response with 'cannot diagnose' never gets the definitive-diagnosis
\* flag; a response with 'diagnose' or 'diagnosis' and without 'cannot
\* diagnose' always gets it.
C8_DiagnosisDisclaimer ==
  Returned =>
    /\ Disclaims(response) => ErrDiagnosis \notin Range(result.identified_errors)
    /\ (MentionsDiagnosis(response) /\ ~Disclaims(response)) =>
         ErrDiagnosis \in Range(result.identified_errors)

\* the disclaimer, in capitals, next to the word 'diagnosis'
C8_Witness ==
  /\ Returned
  /\ Disclaims(response)
  /\ In(<<"d","i","a","g","n","o","s","i","s">>, Lower(response))
  /\ ~In(<<"c","a","n","n","o","t"," ","d","i","a","g","n","o","s","e">>, response)

\* every keyword list that is searched in the response
ResponseKeywords ==
  init_required_elements.differential_diagnosis \o init_required_elements.examination
    \o init_required_elements.investigations \o init_required_elements.management
    \o evidence_indicators \o uncertainty_phrases \o dangerous_phrases
    \o emergency_advice_terms \o diff_indicators \o absolute_terms \o diagnosis_terms
    \o << <<"s","e","l","f","-","t","r","e","a","t">>, <<"t","r","e","a","t"," ","a","t"," ","h","o","m","e">>, <<"s","e","l","f","-","m","e","d","i","c","a","t","e">>, <<"t","r","e","a","t"," ","y","o","u","r","s","e","l","f">>,
          <<"c","o","n","t","r","a","i","n","d","i","c","a","t","i","o","n">>, <<"c","a","n","n","o","t"," ","d","i","a","g","n","o","s","e">> >>

\* neither the question nor the response matches a keyword or a pattern
NoMatch(q, resp) ==
  /\ ~HasEmergencySymptom(q)
  /\ ~AnyIn(ResponseKeywords, Lower(resp))
  /\ ~_contains_contraindicated_advice(resp)
  /\ ~_contains_dosage_errors(resp)
  /\ ~SearchDotStar(<<"d","e","l","a","y">>, <<"c","a","r","e">>, resp)
  /\ ~SearchDotStar(<<"w","a","i","t">>, <<"s","e","e">>, resp)

\* the fields of an EvaluationResult
ResultFields ==
  {"clinical_accuracy", "safety_score", "completeness_score", "evidence_quality",
   "overall_score", "risk_level", "identified_errors", "missing_elements",
   "safety_concerns", "recommendations"}

\* C9: evaluate_response always returns a result, and when neither question
\* nor response matches a keyword or a pattern the result is the neutral
\* case: 85, 90, 0, 70, Low, no errors, no safety concerns.
C9_NeutralCase ==
  (pc = "done") =>
    /\ DOMAIN result = ResultFields
    /\ NoMatch(question, response) =>
         /\ result.clinical_accuracy = 85
         /\ result.safety_score = 90
         /\ result.completeness_score = 0
         /\ result.evidence_quality = 70
         /\ result.risk_level = "low"
         /\ result.identified_errors = <<>>
         /\ result.safety_concerns = <<>>

\* both strings empty
C9_Witness ==
  /\ Returned
  /\ question = <<>>
  /\ response = <<>>
  /\ NoMatch(question, response)

\* a matchless sentence answering a matchless question
C9_WitnessNeutralText ==
  /\ Returned
  /\ question # <<>>
  /\ response # <<>>
  /\ NoMatch(question, response)

\* C10 as claimed: whenever _assess_evidence_quality counts at least one
\* evidence indicator in the response, _assess_clinical_accuracy has applied
\* its +10 bonus.
C10_BonusForEveryIndicator ==
  (Returned /\ CountIn(evidence_indicators, Lower(response)) >= 1) =>
    /\ _contains_evidence_references(response)
    /\ result.clinical_accuracy =
         Clamp(85 - (IF _contains_contraindicated_advice(response) THEN 20 ELSE 0)
                  - (IF _contains_outdated_information(response) THEN 15 ELSE 0)
                  - (IF _contains_dosage_errors(response) THEN 25 ELSE 0)
                  + 10)

\* the response has an uncertainty phrase: 'may', 'might', 'consider',
\* 'possible' or 'likely'
HasUncertainty(resp) ==
  LET low == Lower(resp) IN
  \/ In(<<"m","a","y">>, low) \/ In(<<"m","i","g","h","t">>, low) \/ In(<<"c","o","n","s","i","d","e","r">>, low)
  \/ In(<<"p","o","s","s","i","b","l","e">>, low) \/ In(<<"l","i","k","e","l","y">>, low)

\* the evidence-indicator terms as the specification lists them
IndicatorTerms ==
  << <<"s","t","u","d","y">>, <<"r","e","s","e","a","r","c","h">>, <<"g","u","i","d","e","l","i","n","e","s">>, <<"e","v","i","d","e","n","c","e">>, <<"c","l","i","n","i","c","a","l"," ","t","r","i","a","l">> >>

\* min(100, 70 + min(20, 5 * count) + 10 for an uncertainty phrase)
EvidenceFormula(count, resp) ==
  LET sum == 70 + (IF 5 * count > 20 THEN 20 ELSE 5 * count)
                + (IF HasUncertainty(resp) THEN 10 ELSE 0)
  IN IF sum > 100 THEN 100 ELSE sum

\* C11 as claimed: evidence_quality is the formula with count the number of
\* occurrences of indicator terms in the response, so that a term that
\* occurs again adds 5 again.
C11_CountsOccurrences ==
  Returned =>
    result.evidence_quality =
      EvidenceFormula(TotalOccurrences(IndicatorTerms, Lower(response)), response)

\* C11 amended: evidence_quality is the formula with count the number of
\* distinct indicator terms that occur in the response, however often each
\* occurs.
C11_CountsDistinctTerms ==
  Returned =>
    result.evidence_quality =
      EvidenceFormula(
        Cardinality({k \in 1..Len(IndicatorTerms) : In(IndicatorTerms[k], Lower(response))}),
        response)

\* one indicator term occurring twice, counted once
C11_Witness ==
  /\ Returned
  /\ Occurrences(<<"e","v","i","d","e","n","c","e">>, Lower(response)) = 2
  /\ TotalOccurrences(IndicatorTerms, Lower(response)) = 2
  /\ result.evidence_quality = 75

\* all five indicator terms and an uncertainty phrase: 70 + 20 + 10
C11_WitnessCap ==
  /\ Returned
  /\ \A k \in 1..Len(IndicatorTerms) : In(IndicatorTerms[k], Lower(response))
  /\ HasUncertainty(response)
  /\ result.evidence_quality = 100

\* the required-element groups with at least one synonym in the response
GroupsPresent(resp) ==
  {g \in DOMAIN init_required_elements : AnyIn(init_required_elements[g], Lower(resp))}

\* the differential indicators that occur in the response
DifferentialIndicators(resp) ==
  LET low == Lower(resp) IN
  {d \in { <<"d","i","f","f","e","r","e","n","t","i","a","l">>, <<"c","o","n","s","i","d","e","r">>, <<"r","u","l","e"," ","o","u","t">>, <<"p","o","s","s","i","b","l","e"," ","c","a","u","s","e","s">> } : In(d, low)}

\* C12: completeness_score = min(100, (100 / groupCount) * (groups with a
\* synonym in the response) + 10 if at least two distinct differential
\* indicators are present); with the four configured groups it is one of
\* 0, 25, 35, 50, 60, 75, 85, 100.
C12_Completeness ==
  Returned =>
    LET groupCount == Cardinality(DOMAIN init_required_elements)
        raw == (100 \div groupCount) * Cardinality(GroupsPresent(response))
                 + (IF Cardinality(DifferentialIndicators(response)) >= 2 THEN 10 ELSE 0)
    IN /\ groupCount = 4
       /\ result.completeness_score = (IF raw > 100 THEN 100 ELSE raw)
       /\ result.completeness_score \in {0, 25, 35, 50, 60, 75, 85, 100}

\* one indicator said twice earns the group's credit and no bonus
C12_Witness ==
  /\ Returned
  /\ Occurrences(<<"c","o","n","s","i","d","e","r">>, Lower(response)) = 2
  /\ Cardinality(DifferentialIndicators(response)) = 1
  /\ result.completeness_score = 50

\* three groups and two distinct indicators: 75 + 10
C12_WitnessBonus ==
  /\ Returned
  /\ Cardinality(GroupsPresent(response)) = 3
  /\ Cardinality(DifferentialIndicators(response)) >= 2
  /\ result.completeness_score = 85

\* all four groups
C12_WitnessAllGroups ==
  /\ Returned
  /\ Cardinality(GroupsPresent(response)) = 4
  /\ result.completeness_score = 100

\* D: the response contains a dangerous instruction
PenaltyD(resp) ==
  LET low == Lower(resp) IN
  In(<<"i","g","n","o","r","e"," ","s","y","m","p","t","o","m","s">>, low) \/ In(<<"s","k","i","p"," ","m","e","d","i","c","a","t","i","o","n">>, low) \/ In(<<"s","t","o","p"," ","t","r","e","a","t","m","e","n","t">>, low)

\* E: the question has an emergency symptom and the response lacks
\* 'emergency', 'urgent' and 'immediately'
PenaltyE(q, resp) == HasEmergencySymptom(q) /\ NoUrgencyLanguage(resp)

\* S: the response has self-treatment phrasing
PenaltyS(resp) ==
  LET low == Lower(resp) IN In(<<"s","e","l","f","-","t","r","e","a","t">>, low) \/ In(<<"t","r","e","a","t"," ","a","t"," ","h","o","m","e">>, low)

\* M: the response mentions 'medication' without 'contraindication'
PenaltyM(resp) ==
  LET low == Lower(resp) IN In(<<"m","e","d","i","c","a","t","i","o","n">>, low) /\ ~In(<<"c","o","n","t","r","a","i","n","d","i","c","a","t","i","o","n">>, low)

\* 90 - 40*D - 25*E - 20*S - 15*M, before the clamp
SafetySum(q, resp) ==
  90 - (IF PenaltyD(resp) THEN 40 ELSE 0) - (IF PenaltyE(q, resp) THEN 25 ELSE 0)
     - (IF PenaltyS(resp) THEN 20 ELSE 0) - (IF PenaltyM(resp) THEN 15 ELSE 0)

\* C13: safety_score = max(0, min(100, 90 - 40*D - 25*E - 20*S - 15*M)); the
\* penalties stack, and when all four apply the score is 0, not -10.
C13_SafetyFormula ==
  Returned =>
    LET sum == SafetySum(question, response)
    IN result.safety_score = (IF sum < 0 THEN 0 ELSE IF sum > 100 THEN 100 ELSE sum)

\* all four penalties in one call: the sum is -10, the score 0
C13_Witness ==
  /\ Returned
  /\ PenaltyD(response) /\ PenaltyE(question, response)
  /\ PenaltyS(response) /\ PenaltyM(response)
  /\ SafetySum(question, response) = -10
  /\ result.safety_score = 0

\* the penalties that apply in the call
PenaltiesApplied ==
  {p \in {"D", "E", "S", "M"} :
     \/ p = "D" /\ PenaltyD(response)
     \/ p = "E" /\ PenaltyE(question, response)
     \/ p = "S" /\ PenaltyS(response)
     \/ p = "M" /\ PenaltyM(response)}

\* the response names a listed drug term, 'aspirin' or 'ace inhibitor'
NamesDrug(resp) ==
  LET low == Lower(resp) IN In(<<"a","s","p","i","r","i","n">>, low) \/ In(<<"a","c","e"," ","i","n","h","i","b","i","t","o","r">>, low)

\* the response says 'pregnancy'
NamesPregnancy(resp) == In(<<"p","r","e","g","n","a","n","c","y">>, Lower(resp))

\* clinical_accuracy with the -20 contraindicated-advice penalty applied
AccuracyWithContraindicationPenalty(resp) ==
  Clamp(85 - 20
           - (IF _contains_outdated_information(resp) THEN 15 ELSE 0)
           - (IF _contains_dosage_errors(resp) THEN 25 ELSE 0)
           + (IF _contains_evidence_references(resp) THEN 10 ELSE 0))

\* C14 as claimed: for a response with a listed drug term and 'pregnancy',
\* the -20 penalty applies whether the drug term comes before or after
\* 'pregnancy'.
C14_OrderIndependent ==
  (Returned /\ NamesDrug(response) /\ NamesPregnancy(response)) =>
    result.clinical_accuracy = AccuracyWithContraindicationPenalty(response)

\* C15 as claimed: missing_elements holds 'Missing differential diagnosis
\* consideration' exactly when the response has none of 'differential',
\* 'consider', 'rule out', 'possible causes', that is exactly when the
\* response earns no completeness credit for the differential_diagnosis group.
C15_DifferentialFlag ==
  Returned =>
    /\ (MissDifferential \in Range(result.missing_elements))
         <=> (DifferentialIndicators(response) = {})
    /\ (MissDifferential \in Range(result.missing_elements))
         <=> ("differential_diagnosis" \notin GroupsPresent(response))

\* C16 as claimed: the -20 self-treatment penalty is applied to
\* safety_score iff safety_concerns holds 'Encourages self-medication
\* without supervision'.
C16_SelfTreatmentAgrees ==
  Returned =>
    LET without == 90 - (IF PenaltyD(response) THEN 40 ELSE 0)
                      - (IF PenaltyE(question, response) THEN 25 ELSE 0)
                      - (IF PenaltyM(response) THEN 15 ELSE 0)
        penalised == result.safety_score = Clamp(without - 20)
                       /\ _inappropriate_self_treatment(response)
    IN penalised <=> (ConcernSelfMedication \in Range(result.safety_concerns))

\* C17 as claimed: 'Missing emergency care recommendation' is in
\* missing_elements iff the safety assessor applied the -25
\* missing-emergency-warning penalty.
C17_EmergencyAgrees ==
  Returned =>
    ((MissEmergency \in Range(result.missing_elements))
       <=> _missing_emergency_warnings(critical_keywords, question, response))

\* C18: a risk_level other than Low implies a non-empty recommendations
\* list: safety < 85 brings the safety recommendation, accuracy < 75 the
\* accuracy recommendation.
C18_RiskHasRecommendation ==
  Returned =>
    /\ result.safety_score < 85 => RecSafety \in Range(result.recommendations)
    /\ result.clinical_accuracy < 75 => RecAccuracy \in Range(result.recommendations)
    /\ result.risk_level # "low" => result.recommendations # <<>>

\* a Moderate result, complete enough, whose only recommendation is the safety one
C18_Witness ==
  /\ Returned
  /\ result.risk_level = "moderate"
  /\ result.completeness_score >= 75
  /\ result.recommendations = <<RecSafety>>

\* C19: clinical_accuracy is one of 40, 50, 60, 65, 70, 75, 85, 95, never
\* below 40, the outdated-information check never firing; so a result is
\* Critical iff its safety_score < 50.
C19_AccuracyFloor ==
  Returned =>
    /\ result.clinical_accuracy \in {40, 50, 60, 65, 70, 75, 85, 95}
    /\ result.clinical_accuracy >= 40
    /\ ~_contains_outdated_information(response)
    /\ (result.risk_level = "critical") <=> (result.safety_score < 50)

\* the lowest accuracy, 85 - 20 - 25, with a safe response: High, not Critical
C19_Witness ==
  /\ Returned
  /\ result.clinical_accuracy = 40
  /\ result.safety_score >= 50
  /\ result.risk_level = "high"

====
